---- MODULE Spec2Model ----
(***************************************************************************)
(* Model of the ledger chain engine: the sled-backed block store           *)
(* (ledger-storage/src/sled_store.rs), the chain facade and the            *)
(* proof-of-work search (ledger-core/src/lib.rs, ledger-core/src/mine.rs). *)
(*                                                                         *)
(* Every sled operation (tree.get, tree.insert, db.insert, db.get) is one  *)
(* atomic step; put_block, ensure_genesis and mine_with_txs_parallel are   *)
(* sequences of such steps that concurrent callers may interleave, since   *)
(* the code holds no lock across them.                                     *)
(***************************************************************************)
EXTENDS Integers, Sequences, FiniteSets, TLC

(* ---------------------------------------------------------------------- *)
(* Bounds                                                                  *)
(* ---------------------------------------------------------------------- *)

\* number of calls issued against one store
MaxCalls == 3
\* number of calls that may be in flight at the same time
MaxThreads == 2
\* largest block index a caller of put_block uses
MaxIndex == 2
\* largest filler byte used for the merkle_root of hand-built blocks
MaxVariant == 1

\* largest wall-clock reading (seconds since the epoch)
MaxTime == 1
\* largest nonce: the model's u64::MAX
MaxNonce == 3
\* longest transaction list handed to merkle_root
MaxTxs == 3
\* most reopenings of the store, and most put_block calls in a run with them
MaxReopens == 1
MaxDurablePuts == 2
\* how many leading bytes of a hash handed to count_leading_zero_bits vary
MaxPrefix == 3
MaxRows == 2

Calls == 1..MaxCalls
Indices == 0..MaxIndex
Times == 0..MaxTime
Nonces == 0..MaxNonce

(* ---------------------------------------------------------------------- *)
(* Option<T>: None is the empty sequence, Some(x) a one-element sequence   *)
(* ---------------------------------------------------------------------- *)

None == <<>>
Some(x) == <<x>>
IsSome(o) == o # None
Unwrap(o) == o[1]

(* ---------------------------------------------------------------------- *)
(* Hashing.  A Hash is either a literal array [v; HASH_SIZE] or a SHA-256  *)
(* digest.  SHA-256 is modelled as a collision-free function of the bytes  *)
(* it is fed: the digest of a byte string is the record holding the byte   *)
(* string, itself a sequence of chunks (an integer in little-endian form,  *)
(* a 32-byte hash, a text, a JSON document).                               *)
(* ---------------------------------------------------------------------- *)

BYTE == 8
HASH_SIZE == 32

LitHash(v) == [lit |-> v]
ZeroHash == LitHash(0)
Sha256(bytes) == [sha |-> bytes]
IsLit(h) == DOMAIN h = {"lit"}

to_le_bytes(n) == [le |-> n]
as_bytes(s) == [utf8 |-> s]
\* variant: the amount is left out of the serialized transaction
serde_json_NoAmount(t) ==
    [json |-> [from |-> t.from, to |-> t.to, timestamp |-> t.timestamp]]

serde_json(t) == [json |-> t]

\* variant: data_hash is appended before previous_hash
hash_bytes_DataFirst(header) ==
    << to_le_bytes(header.index),
       header.data_hash,
       header.previous_hash,
       header.merkle_root,
       to_le_bytes(header.timestamp),
       to_le_bytes(header.nonce) >>

hash_bytes(header) ==
    << to_le_bytes(header.index),
       header.previous_hash,
       header.data_hash,
       header.merkle_root,
       to_le_bytes(header.timestamp),
       to_le_bytes(header.nonce) >>

block_header_hash(header) == Sha256(hash_bytes(header))

\* variant: the transactions and the payload are fed to the hasher as well
BlockHash_WithBody(block) ==
    Sha256(hash_bytes(block.header)
           \o [i \in 1..Len(block.txs) |-> serde_json(block.txs[i])]
           \o (IF IsSome(block.data) THEN <<as_bytes(Unwrap(block.data))>> ELSE <<>>))

BlockHash(block) == block_header_hash(block.header)

block_data_hash(data) ==
    IF IsSome(data) THEN Sha256(<<as_bytes(Unwrap(data))>>) ELSE Sha256(<<>>)

\* variant: the two hashes of a pair are fed to the hasher right one first
NextLevel_Swapped(level) ==
    [ k \in 1..((Len(level) + 1) \div 2) |->
        LET a == level[2 * k - 1]
            b == IF 2 * k <= Len(level) THEN level[2 * k] ELSE level[2 * k - 1]
        IN  Sha256(<<b, a>>) ]

\* variant: the last hash of an odd level moves up as it is
NextLevel_Promote(level) ==
    [ k \in 1..((Len(level) + 1) \div 2) |->
        IF 2 * k <= Len(level)
           THEN Sha256(<<level[2 * k - 1], level[2 * k]>>)
           ELSE level[2 * k - 1] ]

NextLevel(level) ==
    [ k \in 1..((Len(level) + 1) \div 2) |->
        LET a == level[2 * k - 1]
            b == IF 2 * k <= Len(level) THEN level[2 * k] ELSE level[2 * k - 1]
        IN  Sha256(<<a, b>>) ]

RECURSIVE MerkleReduce(_)
MerkleReduce(level) ==
    IF Len(level) > 1 THEN MerkleReduce(NextLevel(level)) ELSE level[1]

merkle_root(txs) ==
    IF Len(txs) = 0
       THEN ZeroHash
       ELSE MerkleReduce([i \in 1..Len(txs) |-> Sha256(<<serde_json(txs[i])>>)])

(* ---------------------------------------------------------------------- *)
(* Proof of work.  The leading bytes of a SHA-256 digest are modelled by a *)
(* small deterministic mix of the integers hashed: z zero bytes, then the  *)
(* byte 0x1F, then 0xFF, with z the sum of the integers modulo the size of *)
(* the nonce space.  Every header so has a nonce for every reachable       *)
(* number of leading zero bytes.                                           *)
(* ---------------------------------------------------------------------- *)

POW_TARGET_DIFFICULTY == 20

RECURSIVE SumLe(_)
SumLe(bytes) ==
    IF Len(bytes) = 0 THEN 0
    ELSE (IF DOMAIN Head(bytes) = {"le"} THEN Head(bytes).le ELSE 0) + SumLe(Tail(bytes))

Bytes(h) ==
    IF IsLit(h)
       THEN [k \in 1..HASH_SIZE |-> h.lit]
       ELSE LET z == SumLe(h.sha) % (MaxNonce + 1)
            IN  [k \in 1..HASH_SIZE |-> IF k <= z THEN 0 ELSE IF k = z + 1 THEN 31 ELSE 255]

\* the bytes of an integer, least significant first
RECURSIVE LeBytes(_, _)
LeBytes(n, width) ==
    IF width = 0 THEN <<>> ELSE <<n % 256>> \o LeBytes(n \div 256, width - 1)

\* the bytes a chunk contributes to a Vec<u8>
ChunkBytes(chunk) ==
    IF DOMAIN chunk = {"le"} THEN LeBytes(chunk.le, BYTE) ELSE Bytes(chunk)

\* the Vec<u8> built by extend_from_slice over the chunks, in order
RECURSIVE VecBytes(_)
VecBytes(chunks) ==
    IF Len(chunks) = 0 THEN <<>> ELSE ChunkBytes(Head(chunks)) \o VecBytes(Tail(chunks))

\* u8::leading_zeros
RECURSIVE leading_zeros(_, _)
leading_zeros(b, width) ==
    IF width = 0 THEN 0
    ELSE IF b >= 2 ^ (width - 1) THEN 0
    ELSE 1 + leading_zeros(b, width - 1)

RECURSIVE CountFrom(_, _, _)
\* variant: the scan goes on after the first non-zero byte
CountFrom_NoBreak(hash, k, total) ==
    IF k > Len(hash) THEN total
    ELSE IF hash[k] = 0 THEN CountFrom(hash, k + 1, total + 8)
    ELSE CountFrom(hash, k + 1, total + leading_zeros(hash[k], 8))

CountFrom(hash, k, total) ==
    IF k > Len(hash) THEN total
    ELSE IF hash[k] = 0 THEN CountFrom(hash, k + 1, total + 8)
    ELSE total + leading_zeros(hash[k], 8)

count_leading_zero_bits(hash) == CountFrom(hash, 1, 0)

MeetsTarget(header, target) ==
    count_leading_zero_bits(Bytes(block_header_hash(header))) >= target

\* BlockHeader::new, with the wall-clock reading it takes
BlockHeaderNew(index, previous_hash, data_hash, merkle, nonce, now) ==
    [ index |-> index,
      previous_hash |-> previous_hash,
      data_hash |-> data_hash,
      merkle_root |-> merkle,
      timestamp |-> now,
      nonce |-> nonce ]

\* variant: the genesis header commits to its payload in merkle_root too
genesis_block_DataRoot(now) ==
    LET data == Some("Genesis Block")
    IN  [ header |-> BlockHeaderNew(0, ZeroHash, block_data_hash(data),
                                    block_data_hash(data), 0, now),
          data |-> data,
          txs |-> <<>> ]

genesis_block(now) ==
    LET data == Some("Genesis Block")
    IN  [ header |-> BlockHeaderNew(0, ZeroHash, block_data_hash(data), ZeroHash, 0, now),
          data |-> data,
          txs |-> <<>> ]

\* the nonce loop of mine_genesis_block: None when it comes back to the
\* nonce it started from without a hit, that is when it never returns
RECURSIVE SeqSearch(_, _, _)
SeqSearch(header, target_zeros, tried) ==
    IF MeetsTarget(header, target_zeros) THEN Some(header)
    ELSE IF tried = MaxNonce THEN None
    ELSE SeqSearch([header EXCEPT !.nonce = (@ + 1) % (MaxNonce + 1)],
                   target_zeros, tried + 1)

mine_genesis_block(block, target_zeros) ==
    LET found == SeqSearch(block.header, target_zeros, 0)
    IN  IF IsSome(found) THEN Some([block EXCEPT !.header = Unwrap(found)]) ELSE None

\* (0u64..u64::MAX): the upper end is excluded
ParallelRange == 0..(MaxNonce - 1)

\* variant: the block returned carries the nonce after the one found
mine_block_parallel_NextNonce(index, prev_hash, txs, data, target, timestamp, now) ==
    LET header ==
            BlockHeaderNew(index, prev_hash, block_data_hash(data), merkle_root(txs), timestamp, now)
        base_header == [header EXCEPT !.nonce = 0]
    IN  { [ header |-> [base_header EXCEPT !.nonce = (found + 1) % (MaxNonce + 1)],
            data |-> data, txs |-> txs ] :
            found \in { nonce \in ParallelRange :
                          MeetsTarget([base_header EXCEPT !.nonce = nonce], target) } }

\* variant: the template's data_hash is that of an absent payload
mine_block_parallel_NoDataHash(index, prev_hash, txs, data, target, timestamp, now) ==
    LET header ==
            BlockHeaderNew(index, prev_hash, block_data_hash(None), merkle_root(txs), timestamp, now)
        base_header == [header EXCEPT !.nonce = 0]
    IN  { [ header |-> [base_header EXCEPT !.nonce = found], data |-> data, txs |-> txs ] :
            found \in { nonce \in ParallelRange :
                          MeetsTarget([base_header EXCEPT !.nonce = nonce], target) } }

\* every block mine_block_parallel can return; find_any may report any
\* nonce that meets the target, and an empty set is the expect() panic.
\* `timestamp` is the clock reading the function takes itself and hands to
\* BlockHeader::new in the place of the nonce; `now` is the reading
\* BlockHeader::new takes for the header.
mine_block_parallel(index, prev_hash, txs, data, target, timestamp, now) ==
    LET header ==
            BlockHeaderNew(index, prev_hash, block_data_hash(data), merkle_root(txs), timestamp, now)
        base_header == [header EXCEPT !.nonce = 0]
    IN  { [ header |-> [base_header EXCEPT !.nonce = found], data |-> data, txs |-> txs ] :
            found \in { nonce \in ParallelRange :
                          MeetsTarget([base_header EXCEPT !.nonce = nonce], target) } }

(* ---------------------------------------------------------------------- *)
(* State                                                                   *)
(* ---------------------------------------------------------------------- *)

VARIABLES
    tree_blocks,     \* the "blocks" tree: index -> Option<Block>
    key_tip_height,  \* the "tip_height" record: Option<u64>
    key_tip_hash,    \* the "tip_hash" record: Option<Hash>
    pc,              \* position of every call
    op,              \* operation every call runs
    blk,             \* the block a call passes to put_block: Option<Block>
    loc,             \* the tip a chain call read: [height, prev]
    first,           \* history: first block tree.insert wrote at an index
    inserted,        \* history: the calls whose put_block reached tree.insert
    req,             \* per call: the arguments of mine_with_txs_parallel
    disk,            \* what sled has made durable: the store as of the last flush
    survived,        \* history: per reopening of the store, the calls that had returned Ok
    calc,            \* a function under evaluation: its arguments and its result
    mempool,         \* the node's mempool: the Vec<Transaction> behind the mutex
    accepted,        \* history: every transaction pushed to the mempool, in order
    app              \* the dashboard's App: tab, rows, cursors, table selections

store == <<tree_blocks, key_tip_height, key_tip_hash>>
node == <<mempool, accepted>>
vars == <<tree_blocks, key_tip_height, key_tip_hash, pc, op, blk, loc, first, inserted,
          req, disk, survived, calc, mempool, accepted, app>>

(* the ChainStore read operations *)
get_block(index) == tree_blocks[index]
tip_height == IF IsSome(key_tip_height) THEN Unwrap(key_tip_height) ELSE 0
tip_hash == key_tip_hash

\* a call is over: it returned Ok, returned Err, panicked, or its process stopped
Finished(c) == pc[c] \in {"ok", "err", "panicked", "killed"}
Quiet(c) == pc[c] = "idle" \/ Finished(c)

\* calls are issued in the order of their numbers
InSpawnOrder(c) == IF c = 1 THEN TRUE ELSE pc[c - 1] # "idle"
InFlight == {c \in Calls : ~ Quiet(c)}
\* a further call may be issued
MayCall(c) ==
    /\ pc[c] = "idle"
    /\ InSpawnOrder(c)
    /\ Cardinality(InFlight) < MaxThreads
NoTip == [height |-> 0, prev |-> None]
NoReq == [txs |-> <<>>, data |-> None, target |-> 0, now |-> 0]
NoCalc == [f |-> "none"]
NoApp == [at |-> "none"]

\* a store opened on an empty path and no call made yet
InitStore ==
    /\ tree_blocks = [i \in Indices |-> None]
    /\ key_tip_height = None
    /\ key_tip_hash = None
    /\ pc = [c \in Calls |-> "idle"]
    /\ op = [c \in Calls |-> "none"]
    /\ blk = [c \in Calls |-> None]
    /\ loc = [c \in Calls |-> NoTip]
    /\ first = [i \in Indices |-> None]
    /\ inserted = {}
    /\ req = [c \in Calls |-> NoReq]
    /\ disk = <<[i \in Indices |-> None], None, None>>
    /\ survived = <<>>
    /\ mempool = <<>>
    /\ accepted = <<>>

Init ==
    /\ InitStore
    /\ app = NoApp
    /\ calc = NoCalc

(* ---------------------------------------------------------------------- *)
(* Blocks callers build by hand (the storage tests)                        *)
(* ---------------------------------------------------------------------- *)

HandBlock(index, previous_hash, variant) ==
    [ header |-> [ index |-> index,
                   previous_hash |-> previous_hash,
                   data_hash |-> ZeroHash,
                   merkle_root |-> LitHash(variant),
                   timestamp |-> 0,
                   nonce |-> 0 ],
      data |-> None,
      txs |-> <<>> ]

\* previous_hash is all zero or the hash of the block stored just below
PrevChoices(index) ==
    {ZeroHash} \cup
    (IF index > 0 /\ IsSome(tree_blocks[index - 1])
        THEN {BlockHash(Unwrap(tree_blocks[index - 1]))} ELSE {})

PutInputs ==
    UNION { { HandBlock(i, p, v) : p \in PrevChoices(i), v \in 0..MaxVariant } :
            i \in Indices }

(* ---------------------------------------------------------------------- *)
(* SledStore::put_block                                                    *)
(* ---------------------------------------------------------------------- *)

\* a caller invokes put_block(block)
CallPut(c) ==
    /\ MayCall(c)
    /\ \E b \in PutInputs :
         /\ blk' = [blk EXCEPT ![c] = Some(b)]
         /\ op' = [op EXCEPT ![c] = "put"]
         /\ pc' = [pc EXCEPT ![c] = "put_check"]
    /\ UNCHANGED <<store, loc, first, inserted, req, disk, survived, calc, node, app>>

\* variant: no occupancy check, every put_block goes on to insert
PutCheck_NoCheck(c) ==
    /\ pc[c] = "put_check"
    /\ pc' = [pc EXCEPT ![c] = "put_insert"]
    /\ UNCHANGED <<store, op, blk, loc, first, inserted, req, disk, survived, calc, node, app>>

\* variant: an index at or below the recorded tip is taken to be occupied
PutCheck_BelowTip(c) ==
    /\ pc[c] = "put_check"
    /\ pc' = [pc EXCEPT ![c] =
                IF \/ IsSome(get_block(Unwrap(blk[c]).header.index))
                   \/ /\ IsSome(key_tip_height)
                      /\ Unwrap(blk[c]).header.index <= tip_height
                   THEN "ok" ELSE "put_insert"]
    /\ UNCHANGED <<store, op, blk, loc, first, inserted, req, disk, survived, calc, node, app>>

\* if self.get_block(block.header.index)?.is_some() { return Ok(()) }
PutCheck(c) ==
    /\ pc[c] = "put_check"
    /\ pc' = [pc EXCEPT ![c] =
                IF IsSome(get_block(Unwrap(blk[c]).header.index))
                   THEN "ok" ELSE "put_insert"]
    /\ UNCHANGED <<store, op, blk, loc, first, inserted, req, disk, survived, calc, node, app>>

\* tree.insert(key, bytes)
PutInsert(c) ==
    /\ pc[c] = "put_insert"
    /\ LET b == Unwrap(blk[c])
           i == b.header.index
       IN  /\ tree_blocks' = [tree_blocks EXCEPT ![i] = Some(b)]
           /\ first' = [first EXCEPT ![i] = IF IsSome(@) THEN @ ELSE Some(b)]
    /\ inserted' = inserted \cup {c}
    /\ pc' = [pc EXCEPT ![c] = "put_tip_height"]
    /\ UNCHANGED <<key_tip_height, key_tip_hash, op, blk, loc, req, disk, survived, calc, node, app>>

\* variant: the tip height only ever moves up
PutTipHeight_Monotonic(c) ==
    /\ pc[c] = "put_tip_height"
    /\ key_tip_height' =
          IF IsSome(key_tip_height) /\ Unwrap(blk[c]).header.index < tip_height
             THEN key_tip_height ELSE Some(Unwrap(blk[c]).header.index)
    /\ pc' = [pc EXCEPT ![c] = "put_tip_hash"]
    /\ UNCHANGED <<tree_blocks, key_tip_hash, op, blk, loc, first, inserted, req, disk, survived, calc,
                   node, app>>

\* self.db.insert(KEY_TIP_HEIGHT, &block.header.index.to_be_bytes())
PutTipHeight(c) ==
    /\ pc[c] = "put_tip_height"
    /\ key_tip_height' = Some(Unwrap(blk[c]).header.index)
    /\ pc' = [pc EXCEPT ![c] = "put_tip_hash"]
    /\ UNCHANGED <<tree_blocks, key_tip_hash, op, blk, loc, first, inserted, req, disk, survived, calc,
                   node, app>>

\* variant: the tip hash is taken from the header's previous_hash
PutTipHash_Previous(c) ==
    /\ pc[c] = "put_tip_hash"
    /\ key_tip_hash' = Some(Unwrap(blk[c]).header.previous_hash)
    /\ pc' = [pc EXCEPT ![c] = "put_flush"]
    /\ UNCHANGED <<tree_blocks, key_tip_height, op, blk, loc, first, inserted, req, disk, survived, calc,
                   node, app>>

\* self.db.insert(KEY_TIP_HASH, &block.hash())
PutTipHash(c) ==
    /\ pc[c] = "put_tip_hash"
    /\ key_tip_hash' = Some(BlockHash(Unwrap(blk[c])))
    /\ pc' = [pc EXCEPT ![c] = "put_flush"]
    /\ UNCHANGED <<tree_blocks, key_tip_height, op, blk, loc, first, inserted, req, disk, survived, calc,
                   node, app>>

\* variant: put_block returns without flushing
PutFlush_NoFlush(c) ==
    /\ pc[c] = "put_flush"
    /\ pc' = [pc EXCEPT ![c] = "ok"]
    /\ UNCHANGED <<store, op, blk, loc, first, inserted, req, disk, survived, calc, node, app>>

\* self.db.flush()?; Ok(())   every write made so far becomes durable
PutFlush(c) ==
    /\ pc[c] = "put_flush"
    /\ disk' = store
    /\ pc' = [pc EXCEPT ![c] = "ok"]
    /\ UNCHANGED <<store, op, blk, loc, first, inserted, req, survived, calc, node, app>>

(* ---------------------------------------------------------------------- *)
(* Chain::ensure_genesis and Chain::mine_with_txs_parallel                 *)
(* ---------------------------------------------------------------------- *)

Tx1 == [from |-> "Alice", to |-> "Bob", amount |-> 10, timestamp |-> 0]
TxChoices == {<<>>, <<Tx1>>}
Targets == {0, 16}

\* let height = self.store.tip_height()?; if height == 0 && ...
CallEnsureGenesis(c) ==
    /\ MayCall(c)
    /\ op' = [op EXCEPT ![c] = "ensure_genesis"]
    /\ loc' = [loc EXCEPT ![c].height = tip_height]
    /\ pc' = [pc EXCEPT ![c] = IF tip_height = 0 THEN "eg_get" ELSE "ok"]
    /\ UNCHANGED <<store, blk, first, inserted, req, disk, survived, calc, node, app>>

\* variant: a genesis block is mined and put whether index 0 is occupied or not
EgGetBlock_Always(c) ==
    /\ pc[c] = "eg_get"
    /\ \E now \in Times :
         LET mined == mine_genesis_block(genesis_block(now), POW_TARGET_DIFFICULTY)
         IN  /\ blk' = [blk EXCEPT ![c] = mined]
             /\ pc' = [pc EXCEPT ![c] = IF IsSome(mined) THEN "put_check" ELSE "spinning"]
    /\ UNCHANGED <<store, op, loc, first, inserted, req, disk, survived, calc, node, app>>

\* ... && self.store.get_block(0)?.is_none() { mine_genesis_block(genesis_block(), ..) }
EgGetBlock(c) ==
    /\ pc[c] = "eg_get"
    /\ IF IsSome(get_block(0))
          THEN /\ pc' = [pc EXCEPT ![c] = "ok"]
               /\ blk' = blk
          ELSE \E now \in Times :
                 LET mined == mine_genesis_block(genesis_block(now), POW_TARGET_DIFFICULTY)
                 IN  /\ blk' = [blk EXCEPT ![c] = mined]
                     /\ pc' = [pc EXCEPT ![c] =
                                 IF IsSome(mined) THEN "put_check" ELSE "spinning"]
    /\ UNCHANGED <<store, op, loc, first, inserted, req, disk, survived, calc, node, app>>

\* let index = self.store.tip_height()? + 1;
CallMine(c) ==
    /\ MayCall(c)
    /\ tip_height + 1 <= MaxIndex
    /\ op' = [op EXCEPT ![c] = "mine"]
    /\ loc' = [loc EXCEPT ![c].height = tip_height]
    /\ pc' = [pc EXCEPT ![c] = "mine_tip_hash"]
    /\ UNCHANGED <<store, blk, first, inserted, req, disk, survived, calc, node, app>>

\* let prev_hash = self.store.tip_hash()?; mine_block_parallel(index, prev_hash.expect(..), ..)
MineWith(c, targets) ==
    /\ IF tip_hash = None
          THEN /\ pc' = [pc EXCEPT ![c] = "panicked"]
               /\ UNCHANGED <<blk, loc, req>>
          ELSE /\ loc' = [loc EXCEPT ![c].prev = tip_hash]
               /\ \E txs \in TxChoices, target \in targets, timestamp \in Times, now \in Times :
                    LET results == mine_block_parallel(loc[c].height + 1, Unwrap(tip_hash),
                                                       txs, None, target, timestamp, now)
                    IN  /\ req' = [req EXCEPT ![c] = [txs |-> txs, data |-> None,
                                                      target |-> target, now |-> now]]
                        /\ IF results = {}
                              THEN /\ pc' = [pc EXCEPT ![c] = "panicked"]
                                   /\ blk' = blk
                              ELSE \E b \in results :
                                     /\ blk' = [blk EXCEPT ![c] = Some(b)]
                                     /\ pc' = [pc EXCEPT ![c] = "put_check"]
    /\ UNCHANGED <<store, op, first, inserted, disk, survived, calc, node, app>>

\* mine_with_txs_parallel called with a target the search can meet
MineTipHash(c) ==
    /\ pc[c] = "mine_tip_hash"
    /\ MineWith(c, Targets)

(* ---------------------------------------------------------------------- *)
(* Specifications                                                          *)
(* ---------------------------------------------------------------------- *)

\* up to MaxThreads concurrent callers of put_block on one store
Next ==
    \E c \in 1..MaxThreads :
        \/ CallPut(c)
        \/ PutCheck(c)
        \/ PutInsert(c)
        \/ PutTipHeight(c)
        \/ PutTipHash(c)
        \/ PutFlush(c)

Spec == Init /\ [][Next]_vars

\* put_block called while no other call is in flight
CallPutAlone(c) ==
    /\ \A d \in Calls : Quiet(d)
    /\ CallPut(c)

\* one caller of put_block at a time: a call returns before the next starts
NextSeq ==
    \E c \in Calls :
        \/ CallPutAlone(c)
        \/ PutCheck(c)
        \/ PutInsert(c)
        \/ PutTipHeight(c)
        \/ PutTipHash(c)
        \/ PutFlush(c)

SpecSeq == Init /\ [][NextSeq]_vars

(* ---------------------------------------------------------------------- *)
(* Durability.  sled keeps writes in memory until a flush; Config's        *)
(* default also flushes in the background from time to time.  A process    *)
(* that stops loses what was not flushed, and SledStore::open on the same  *)
(* path then sees the durable state.                                       *)
(* ---------------------------------------------------------------------- *)

\* sled's periodic flush: every write made so far becomes durable
BackgroundFlush ==
    /\ disk # store
    /\ disk' = store
    /\ UNCHANGED <<store, pc, op, blk, loc, first, inserted, req, survived, calc, node, app>>

\* the store is dropped or the process stops, and the store is reopened
CrashReopen ==
    /\ Len(survived) < MaxReopens
    /\ tree_blocks' = disk[1]
    /\ key_tip_height' = disk[2]
    /\ key_tip_hash' = disk[3]
    /\ pc' = [c \in Calls |-> IF Quiet(c) THEN pc[c] ELSE "killed"]
    /\ survived' = Append(survived, {c \in Calls : pc[c] = "ok"})
    /\ UNCHANGED <<op, blk, loc, first, inserted, req, disk, calc, node, app>>

\* put_block called, while no other call is in flight, on such a store
CallPutDurable(c) ==
    /\ c <= MaxDurablePuts
    /\ CallPutAlone(c)

\* one caller of put_block at a time, on a store that can stop and reopen
NextDurable ==
    \/ \E c \in Calls :
          \/ CallPutDurable(c)
          \/ PutCheck(c)
          \/ PutInsert(c)
          \/ PutTipHeight(c)
          \/ PutTipHash(c)
          \/ PutFlush(c)
    \/ BackgroundFlush
    \/ CrashReopen

SpecDurable == Init /\ [][NextDurable]_vars

(* ---------------------------------------------------------------------- *)
(* Backend failures: any sled call of put_block may return Err, which `?`  *)
(* and the explicit match hand straight back to the caller.                *)
(* ---------------------------------------------------------------------- *)

\* self.get_block(block.header.index)? fails
PutCheckErr(c) ==
    /\ pc[c] = "put_check"
    /\ pc' = [pc EXCEPT ![c] = "err"]
    /\ UNCHANGED <<store, op, blk, loc, first, inserted, req, disk, survived, calc, node, app>>

\* if let Err(e) = tree.insert(key, bytes) { return Err(e.into()) }
PutInsertErr(c) ==
    /\ pc[c] = "put_insert"
    /\ pc' = [pc EXCEPT ![c] = "err"]
    /\ UNCHANGED <<store, op, blk, loc, first, inserted, req, disk, survived, calc, node, app>>

\* self.db.insert(KEY_TIP_HEIGHT, ..)? fails: the block stays inserted
PutTipHeightErr(c) ==
    /\ pc[c] = "put_tip_height"
    /\ pc' = [pc EXCEPT ![c] = "err"]
    /\ UNCHANGED <<store, op, blk, loc, first, inserted, req, disk, survived, calc, node, app>>

\* self.db.insert(KEY_TIP_HASH, ..)? fails: block and tip height stay written
PutTipHashErr(c) ==
    /\ pc[c] = "put_tip_hash"
    /\ pc' = [pc EXCEPT ![c] = "err"]
    /\ UNCHANGED <<store, op, blk, loc, first, inserted, req, disk, survived, calc, node, app>>

\* self.db.flush()? fails: the writes stay visible and are not made durable
PutFlushErr(c) ==
    /\ pc[c] = "put_flush"
    /\ pc' = [pc EXCEPT ![c] = "err"]
    /\ UNCHANGED <<store, op, blk, loc, first, inserted, req, disk, survived, calc, node, app>>

\* one caller of put_block at a time, on a backend whose calls can fail
NextFault ==
    \E c \in Calls :
        \/ CallPutAlone(c)
        \/ PutCheck(c)
        \/ PutCheckErr(c)
        \/ PutInsert(c)
        \/ PutInsertErr(c)
        \/ PutTipHeight(c)
        \/ PutTipHeightErr(c)
        \/ PutTipHash(c)
        \/ PutTipHashErr(c)
        \/ PutFlush(c)
        \/ PutFlushErr(c)

SpecFault == Init /\ [][NextFault]_vars

\* callers of the chain facade, up to MaxThreads of them in flight
NextChain ==
    \E c \in Calls :
        \/ CallEnsureGenesis(c)
        \/ EgGetBlock(c)
        \/ CallMine(c)
        \/ MineTipHash(c)
        \/ PutCheck(c)
        \/ PutInsert(c)
        \/ PutTipHeight(c)
        \/ PutTipHash(c)
        \/ PutFlush(c)

SpecChain == Init /\ [][NextChain]_vars

\* the targets a caller may ask for, one of them above the 256 bits of a digest
AllTargets == Targets \cup {POW_TARGET_DIFFICULTY, 8 * HASH_SIZE + 1}

\* mine_with_txs_parallel called with any target
MineTipHashAny(c) ==
    /\ pc[c] = "mine_tip_hash"
    /\ MineWith(c, AllTargets)

CallEnsureGenesisAlone(c) ==
    /\ \A d \in Calls : Quiet(d)
    /\ CallEnsureGenesis(c)

CallMineAlone(c) ==
    /\ \A d \in Calls : Quiet(d)
    /\ CallMine(c)

\* one caller at a time of the store and of the chain facade over it
NextApiSeq ==
    \E c \in Calls :
        \/ CallPutAlone(c)
        \/ CallEnsureGenesisAlone(c)
        \/ EgGetBlock(c)
        \/ CallMineAlone(c)
        \/ MineTipHashAny(c)
        \/ PutCheck(c)
        \/ PutInsert(c)
        \/ PutTipHeight(c)
        \/ PutTipHash(c)
        \/ PutFlush(c)

SpecApiSeq == Init /\ [][NextApiSeq]_vars

\* one caller at a time of the chain facade, which alone writes the store
\* and is asked for targets the search can meet
NextFacadeSeq ==
    \E c \in Calls :
        \/ CallEnsureGenesisAlone(c)
        \/ EgGetBlock(c)
        \/ CallMineAlone(c)
        \/ MineTipHash(c)
        \/ PutCheck(c)
        \/ PutInsert(c)
        \/ PutTipHeight(c)
        \/ PutTipHash(c)
        \/ PutFlush(c)

SpecFacadeSeq == Init /\ [][NextFacadeSeq]_vars

(* ---------------------------------------------------------------------- *)
(* merkle_root, called on two transaction lists one after the other        *)
(* ---------------------------------------------------------------------- *)

Tx2 == [from |-> "Alice", to |-> "Bob", amount |-> 5, timestamp |-> 0]
Tx3 == [from |-> "Bob", to |-> "Charlie", amount |-> 5, timestamp |-> 1]
Tx4 == [from |-> "Bob", to |-> "Alice", amount |-> 10, timestamp |-> 1]
TxPool == {Tx1, Tx2, Tx3, Tx4}
TxLists == UNION { [1..n -> TxPool] : n \in 0..MaxTxs }

\* a list with its last transaction pushed once more
DupLast(l) == Append(l, l[Len(l)])
OddLists == { l \in TxLists : Len(l) % 2 = 1 }

InitMerkle ==
    /\ InitStore
    /\ app = NoApp
    /\ calc \in { [f |-> "merkle_root", a |-> x, b |-> y, ra |-> None, rb |-> None] :
                    x \in TxLists, y \in TxLists \cup { DupLast(l) : l \in OddLists } }

\* let root = merkle_root(&a)
MerkleFirst ==
    /\ calc.f = "merkle_root"
    /\ calc.ra = None
    /\ calc' = [calc EXCEPT !.ra = Some(merkle_root(calc.a))]
    /\ UNCHANGED <<store, pc, op, blk, loc, first, inserted, req, disk, survived, node, app>>

\* let root = merkle_root(&b)
MerkleSecond ==
    /\ calc.f = "merkle_root"
    /\ IsSome(calc.ra)
    /\ calc.rb = None
    /\ calc' = [calc EXCEPT !.rb = Some(merkle_root(calc.b))]
    /\ UNCHANGED <<store, pc, op, blk, loc, first, inserted, req, disk, survived, node, app>>

NextMerkle == MerkleFirst \/ MerkleSecond

SpecMerkle == InitMerkle /\ [][NextMerkle]_vars

(* ---------------------------------------------------------------------- *)
(* count_leading_zero_bits, called on a 32-byte hash                       *)
(* ---------------------------------------------------------------------- *)

\* 0x00, 0x01, 0x0F, 0x40, 0x80, 0xFF
ByteChoices == {0, 1, 15, 64, 128, 255}
\* the first MaxPrefix bytes vary, the others are all 0x00 or all 0xFF
HashChoices ==
    { [k \in 1..HASH_SIZE |-> IF k <= MaxPrefix THEN p[k] ELSE fill] :
        p \in [1..MaxPrefix -> ByteChoices], fill \in {0, 255} }

InitBits ==
    /\ InitStore
    /\ app = NoApp
    /\ calc \in { [f |-> "count_leading_zero_bits", hash |-> h, out |-> None] :
                    h \in HashChoices }

\* let n = pow::count_leading_zero_bits(&h)
CountBits ==
    /\ calc.f = "count_leading_zero_bits"
    /\ calc.out = None
    /\ calc' = [calc EXCEPT !.out = Some(count_leading_zero_bits(calc.hash))]
    /\ UNCHANGED <<store, pc, op, blk, loc, first, inserted, req, disk, survived, node, app>>

NextBits == CountBits

SpecBits == InitBits /\ [][NextBits]_vars

(* ---------------------------------------------------------------------- *)
(* BlockHeader::hash_bytes, called on two headers one after the other      *)
(* ---------------------------------------------------------------------- *)

\* integers that take one, two and three bytes
IntChoices == {0, 1, 256, 65537}
\* headers with literal hash fields, as the tests build them
HeaderChoices ==
    { [ index |-> i, previous_hash |-> LitHash(p), data_hash |-> LitHash(d),
        merkle_root |-> LitHash(m), timestamp |-> t, nonce |-> n ] :
        i \in IntChoices, p \in {0, 1}, d \in {0, 1}, m \in {0, 2},
        t \in {0, 1}, n \in {0, 1} }

InitHeader ==
    /\ InitStore
    /\ app = NoApp
    /\ calc \in { [f |-> "hash_bytes", a |-> x, b |-> y, ra |-> None, rb |-> None] :
                    x \in HeaderChoices, y \in HeaderChoices }

\* let bytes = a.hash_bytes()
HashBytesFirst ==
    /\ calc.f = "hash_bytes"
    /\ calc.ra = None
    /\ calc' = [calc EXCEPT !.ra = Some(VecBytes(hash_bytes(calc.a)))]
    /\ UNCHANGED <<store, pc, op, blk, loc, first, inserted, req, disk, survived, node, app>>

\* let bytes = b.hash_bytes()
HashBytesSecond ==
    /\ calc.f = "hash_bytes"
    /\ IsSome(calc.ra)
    /\ calc.rb = None
    /\ calc' = [calc EXCEPT !.rb = Some(VecBytes(hash_bytes(calc.b)))]
    /\ UNCHANGED <<store, pc, op, blk, loc, first, inserted, req, disk, survived, node, app>>

NextHeader == HashBytesFirst \/ HashBytesSecond

SpecHeader == InitHeader /\ [][NextHeader]_vars

(* ---------------------------------------------------------------------- *)
(* Block::hash, called on two blocks one after the other                   *)
(* ---------------------------------------------------------------------- *)

\* blocks whose header need not commit to their own payload and transactions
BlockChoices ==
    { [ header |-> [ index |-> i, previous_hash |-> ZeroHash, data_hash |-> d,
                     merkle_root |-> m, timestamp |-> 0, nonce |-> 0 ],
        data |-> data,
        txs |-> txs ] :
        i \in {0, 1},
        d \in {ZeroHash, block_data_hash(Some("a"))},
        m \in {ZeroHash, merkle_root(<<Tx1>>)},
        data \in {None, Some("a"), Some("b")},
        txs \in {<<>>, <<Tx1>>, <<Tx2, Tx1>>} }

InitBlockHash ==
    /\ InitStore
    /\ app = NoApp
    /\ calc \in { [f |-> "hash", a |-> x, b |-> y, ra |-> None, rb |-> None] :
                    x \in BlockChoices, y \in BlockChoices }

\* let hash1 = a.hash()
BlockHashFirst ==
    /\ calc.f = "hash"
    /\ calc.ra = None
    /\ calc' = [calc EXCEPT !.ra = Some(BlockHash(calc.a))]
    /\ UNCHANGED <<store, pc, op, blk, loc, first, inserted, req, disk, survived, node, app>>

\* let hash2 = b.hash()
BlockHashSecond ==
    /\ calc.f = "hash"
    /\ IsSome(calc.ra)
    /\ calc.rb = None
    /\ calc' = [calc EXCEPT !.rb = Some(BlockHash(calc.b))]
    /\ UNCHANGED <<store, pc, op, blk, loc, first, inserted, req, disk, survived, node, app>>

NextBlockHash == BlockHashFirst \/ BlockHashSecond

SpecBlockHash == InitBlockHash /\ [][NextBlockHash]_vars

(* ---------------------------------------------------------------------- *)
(* The two searches on their own: mine_genesis_block one loop iteration at *)
(* a time, mine_block_parallel as the one call of find_any it makes.  A    *)
(* nonce is a u64; here it wraps at MaxNonce + 1.                          *)
(* ---------------------------------------------------------------------- *)

NonceSpace == MaxNonce + 1
\* the blocks handed to mine_genesis_block: a genesis block at any nonce
SeqInputs ==
    { [f |-> "mine_genesis_block",
       arg |-> [genesis_block(now) EXCEPT !.header.nonce = n0],
       block |-> [genesis_block(now) EXCEPT !.header.nonce = n0],
       target |-> target, iters |-> 0, status |-> "running", out |-> None] :
        now \in Times, n0 \in Nonces, target \in AllTargets }
ParInputs ==
    { [f |-> "mine_block_parallel", index |-> i, prev_hash |-> LitHash(1), txs |-> txs,
       data |-> data, target |-> target, timestamp |-> timestamp, now |-> now,
       status |-> "running", out |-> None] :
        i \in Indices, txs \in TxChoices, data \in {None, Some("a")},
        target \in AllTargets, timestamp \in Times, now \in Times }

InitSearch ==
    /\ InitStore
    /\ app = NoApp
    /\ calc \in SeqInputs \cup ParInputs

\* variant: the nonce is incremented before the hash is tested
SeqLoop_IncrementFirst ==
    /\ calc.f = "mine_genesis_block"
    /\ calc.status = "running"
    /\ calc.iters <= NonceSpace
    /\ LET next == [calc.block EXCEPT !.header.nonce = (@ + 1) % NonceSpace]
       IN  IF MeetsTarget(next.header, calc.target)
              THEN calc' = [calc EXCEPT !.block = next, !.status = "returned",
                                        !.out = Some(next)]
              ELSE calc' = [calc EXCEPT !.block = next, !.iters = @ + 1]
    /\ UNCHANGED <<store, pc, op, blk, loc, first, inserted, req, disk, survived, node, app>>

\* one iteration of the loop of mine_genesis_block; the count of iterations
\* stops one past the size of the nonce space
SeqLoop ==
    /\ calc.f = "mine_genesis_block"
    /\ calc.status = "running"
    /\ calc.iters <= NonceSpace
    /\ IF MeetsTarget(calc.block.header, calc.target)
          THEN calc' = [calc EXCEPT !.status = "returned", !.out = Some(calc.block)]
          ELSE calc' = [calc EXCEPT !.block.header.nonce = (@ + 1) % NonceSpace,
                                    !.iters = @ + 1]
    /\ UNCHANGED <<store, pc, op, blk, loc, first, inserted, req, disk, survived, node, app>>

\* mine_block_parallel: find_any over the range, expect(), then the final
\* block and block_header_hash(final_header)
ParSearch ==
    /\ calc.f = "mine_block_parallel"
    /\ calc.status = "running"
    /\ LET results == mine_block_parallel(calc.index, calc.prev_hash, calc.txs,
                                          calc.data, calc.target, calc.timestamp,
                                          calc.now)
       IN  IF results = {}
              THEN calc' = [calc EXCEPT !.status = "panicked"]
              ELSE \E b \in results :
                     calc' = [calc EXCEPT !.status = "returned",
                                !.out = Some([block |-> b,
                                              hash |-> block_header_hash(b.header)])]
    /\ UNCHANGED <<store, pc, op, blk, loc, first, inserted, req, disk, survived, node, app>>

NextSearch == SeqLoop \/ ParSearch

SpecSearch == InitSearch /\ [][NextSearch]_vars

(* ---------------------------------------------------------------------- *)
(* Backend corruption.  A record of the "blocks" tree may come to hold     *)
(* bytes that bincode cannot decode into a Block.  get_block reads the     *)
(* record and decodes it; put_block starts with a call of get_block.       *)
(* ---------------------------------------------------------------------- *)

\* stored bytes that are not the encoding of any block
Undecodable == [garbage |-> TRUE]
\* bincode::deserialize(&ivec) succeeds
Decodes(bytes) == bytes # Undecodable

\* the bytes stored at an occupied index are damaged
CorruptRecord ==
    /\ \A d \in Calls : Quiet(d)
    /\ \E i \in Indices :
         /\ IsSome(tree_blocks[i])
         /\ Decodes(Unwrap(tree_blocks[i]))
         /\ tree_blocks' = [tree_blocks EXCEPT ![i] = Some(Undecodable)]
    /\ UNCHANGED <<key_tip_height, key_tip_hash, pc, op, blk, loc, first, inserted, req,
                   disk, survived, calc, node, app>>

\* a caller invokes get_block(index); req holds the index asked for
CallGetAlone(c) ==
    /\ \A d \in Calls : Quiet(d)
    /\ MayCall(c)
    /\ \E i \in Indices :
         req' = [req EXCEPT ![c] = [index |-> i]]
    /\ op' = [op EXCEPT ![c] = "get"]
    /\ pc' = [pc EXCEPT ![c] = "get_read"]
    /\ UNCHANGED <<store, blk, loc, first, inserted, disk, survived, calc, node, app>>

\* variant: a record that does not decode is an Err
GetBlock_DecodeErr(c) ==
    /\ pc[c] = "get_read"
    /\ LET opt == tree_blocks[req[c].index]
       IN  IF IsSome(opt) /\ ~Decodes(Unwrap(opt))
              THEN /\ pc' = [pc EXCEPT ![c] = "err"]
                   /\ blk' = blk
              ELSE /\ pc' = [pc EXCEPT ![c] = "ok"]
                   /\ blk' = [blk EXCEPT ![c] = opt]
    /\ UNCHANGED <<store, op, loc, first, inserted, req, disk, survived, calc, node, app>>

\* let opt = tree.get(key)?; Ok(opt.map(|ivec| bincode::deserialize(&ivec).unwrap()))
\* blk holds the Option<Block> returned
GetBlock(c) ==
    /\ pc[c] = "get_read"
    /\ LET opt == tree_blocks[req[c].index]
       IN  IF IsSome(opt) /\ ~Decodes(Unwrap(opt))
              THEN /\ pc' = [pc EXCEPT ![c] = "panicked"]
                   /\ blk' = blk
              ELSE /\ pc' = [pc EXCEPT ![c] = "ok"]
                   /\ blk' = [blk EXCEPT ![c] = opt]
    /\ UNCHANGED <<store, op, loc, first, inserted, req, disk, survived, calc, node, app>>

\* a caller invokes put_block on a store that may hold damaged records
CallPutCorruptible(c) ==
    /\ \A d \in Calls : Quiet(d)
    /\ MayCall(c)
    /\ \E i \in Indices, v \in 0..MaxVariant :
         blk' = [blk EXCEPT ![c] = Some(HandBlock(i, ZeroHash, v))]
    /\ op' = [op EXCEPT ![c] = "put"]
    /\ pc' = [pc EXCEPT ![c] = "put_check"]
    /\ UNCHANGED <<store, loc, first, inserted, req, disk, survived, calc, node, app>>

\* if self.get_block(block.header.index)?.is_some(), with the decoding
\* get_block does
PutCheckDecoding(c) ==
    /\ pc[c] = "put_check"
    /\ LET opt == tree_blocks[Unwrap(blk[c]).header.index]
       IN  pc' = [pc EXCEPT ![c] =
                    IF IsSome(opt) /\ ~Decodes(Unwrap(opt)) THEN "panicked"
                    ELSE IF IsSome(opt) THEN "ok" ELSE "put_insert"]
    /\ UNCHANGED <<store, op, blk, loc, first, inserted, req, disk, survived, calc, node, app>>

NextCorrupt ==
    \/ CorruptRecord
    \/ \E c \in Calls :
        \/ CallGetAlone(c)
        \/ GetBlock(c)
        \/ CallPutCorruptible(c)
        \/ PutCheckDecoding(c)
        \/ PutInsert(c)
        \/ PutTipHeight(c)
        \/ PutTipHash(c)
        \/ PutFlush(c)

SpecCorrupt == Init /\ [][NextCorrupt]_vars

(* ---------------------------------------------------------------------- *)
(* SledStore::list_blocks_range and the /chain/blocks handler over it.  The *)
(* "blocks" tree is ordered by key, byte string against byte string; a key *)
(* is the index in big-endian form.                                        *)
(* ---------------------------------------------------------------------- *)

BLOCKS_PER_BATCH == 25
MAX_BLOCKS_PER_REQUEST == BLOCKS_PER_BATCH * 10

RECURSIVE Reversed(_)
Reversed(s) == IF Len(s) = 0 THEN <<>> ELSE Reversed(Tail(s)) \o <<Head(s)>>

\* variant: the key is the index in little-endian form
to_be_bytes_LittleEndian(n) == LeBytes(n, BYTE)

\* u64::to_be_bytes
to_be_bytes(n) == Reversed(LeBytes(n, BYTE))

\* the order of sled keys: byte strings compared from the first byte on
RECURSIVE KeyLeq(_, _)
KeyLeq(a, b) ==
    IF Len(a) = 0 THEN TRUE
    ELSE IF Len(b) = 0 THEN FALSE
    ELSE IF Head(a) # Head(b) THEN Head(a) < Head(b)
    ELSE KeyLeq(Tail(a), Tail(b))

\* the entries of a tree, a set of <<key, value>>, in ascending key order
RECURSIVE Ascending(_)
Ascending(entries) ==
    IF entries = {} THEN <<>>
    ELSE LET lowest == CHOOSE e \in entries : \A g \in entries : KeyLeq(e[1], g[1])
         IN  <<lowest>> \o Ascending(entries \ {lowest})

\* Iterator::take
Take(s, n) == SubSeq(s, 1, IF n < Len(s) THEN n ELSE Len(s))

\* the "blocks" tree after put_block of a hand-built block at each index of a set
TreeOf(indices) == { <<to_be_bytes(i), HandBlock(i, ZeroHash, 0)>> : i \in indices }

list_blocks_range(tree, start, limit, desc) ==
    LET start_key == to_be_bytes(start)
        scanned ==
            IF desc
               THEN Take(Reversed(Ascending({e \in tree : KeyLeq(e[1], start_key)})), limit)
               ELSE Take(Ascending({e \in tree : KeyLeq(start_key, e[1])}), limit)
    IN  [k \in 1..Len(scanned) |-> scanned[k][2]]

\* indices on both sides of a byte boundary, and the requests a client sends
KeyChoices == {0, 1, 2, 255, 256, 513}
LimitChoices == {None, Some(0), Some(1), Some(2), Some(MAX_BLOCKS_PER_REQUEST + 1)}
DirChoices == {None, Some("asc"), Some("desc")}
StoredChoices == { s \in SUBSET KeyChoices : Cardinality(s) <= 4 }

\* a store holding blocks at some indices, its tip at one of them, and a
\* request GET /chain/blocks?start=..&limit=..&dir=..
InitList ==
    /\ InitStore
    /\ app = NoApp
    /\ calc \in { [f |-> "chain_blocks", stored |-> s, height |-> h, p_start |-> ps,
                   p_limit |-> pl, p_dir |-> pd, start |-> 0, limit |-> 0, desc |-> FALSE,
                   at |-> "params", out |-> <<>>] :
                    s \in StoredChoices, h \in KeyChoices, ps \in {None, Some(1), Some(256)},
                    pl \in LimitChoices, pd \in DirChoices }
    /\ calc.height \in (IF calc.stored = {} THEN {0} ELSE calc.stored)

\* let limit = p.limit.unwrap_or(BLOCKS_PER_BATCH).min(MAX_BLOCKS_PER_REQUEST);
\* let desc = p.dir.as_deref() != Some("asc"); let start = p.start.unwrap_or(height);
ListParams ==
    /\ calc.f = "chain_blocks"
    /\ calc.at = "params"
    /\ calc' = [calc EXCEPT
                  !.limit = LET asked == IF IsSome(calc.p_limit) THEN Unwrap(calc.p_limit)
                                         ELSE BLOCKS_PER_BATCH
                            IN  IF asked < MAX_BLOCKS_PER_REQUEST THEN asked
                                ELSE MAX_BLOCKS_PER_REQUEST,
                  !.desc = calc.p_dir # Some("asc"),
                  !.start = IF IsSome(calc.p_start) THEN Unwrap(calc.p_start)
                            ELSE calc.height,
                  !.at = "scan"]
    /\ UNCHANGED <<store, pc, op, blk, loc, first, inserted, req, disk, survived, node, app>>

\* state.chain.store().list_blocks_range(start, limit, desc)
ListScan ==
    /\ calc.f = "chain_blocks"
    /\ calc.at = "scan"
    /\ calc' = [calc EXCEPT
                  !.out = list_blocks_range(TreeOf(calc.stored), calc.start, calc.limit,
                                            calc.desc),
                  !.at = "done"]
    /\ UNCHANGED <<store, pc, op, blk, loc, first, inserted, req, disk, survived, node, app>>

NextList == ListParams \/ ListScan

SpecList == InitList /\ [][NextList]_vars

(* ---------------------------------------------------------------------- *)
(* Chain::tip beside callers of put_block                                  *)
(* ---------------------------------------------------------------------- *)

\* a caller invokes tip()
CallTip(c) ==
    /\ MayCall(c)
    /\ op' = [op EXCEPT ![c] = "tip"]
    /\ pc' = [pc EXCEPT ![c] = "tip_height"]
    /\ UNCHANGED <<store, blk, loc, first, inserted, req, disk, survived, calc, node, app>>

\* Ok((self.store.tip_height()?, ..
TipReadHeight(c) ==
    /\ pc[c] = "tip_height"
    /\ loc' = [loc EXCEPT ![c].height = tip_height]
    /\ pc' = [pc EXCEPT ![c] = "tip_hash"]
    /\ UNCHANGED <<store, op, blk, first, inserted, req, disk, survived, calc, node, app>>

\* .. self.store.tip_hash()?))
TipReadHash(c) ==
    /\ pc[c] = "tip_hash"
    /\ loc' = [loc EXCEPT ![c].prev = tip_hash]
    /\ pc' = [pc EXCEPT ![c] = "ok"]
    /\ UNCHANGED <<store, op, blk, first, inserted, req, disk, survived, calc, node, app>>

\* callers of put_block and of tip(), up to MaxThreads of them at a time
NextTip ==
    \E c \in Calls :
        \/ CallPut(c)
        \/ CallTip(c)
        \/ TipReadHeight(c)
        \/ TipReadHash(c)
        \/ PutCheck(c)
        \/ PutInsert(c)
        \/ PutTipHeight(c)
        \/ PutTipHash(c)
        \/ PutFlush(c)

SpecTip == Init /\ [][NextTip]_vars

(* ---------------------------------------------------------------------- *)
(* The node: POST /tx and GET /mine over one chain and one mempool.  main  *)
(* runs ensure_genesis before it serves, so a request finds a genesis.     *)
(* ---------------------------------------------------------------------- *)

\* params.target.unwrap_or(20), or a target no digest can meet
NodeTargets == {POW_TARGET_DIFFICULTY, 8 * HASH_SIZE + 1}

\* the wall clock counts seconds: the requests of a run fall within the
\* second that follows the start of the node
NodeClock == {MaxTime}

\* the store after chain.ensure_genesis() in main, an empty mempool, no request yet
InitNode ==
    /\ \E now \in Times :
         LET genesis == mine_genesis_block(genesis_block(now), POW_TARGET_DIFFICULTY)
         IN  /\ tree_blocks = [i \in Indices |-> IF i = 0 THEN genesis ELSE None]
             /\ first = [i \in Indices |-> IF i = 0 THEN genesis ELSE None]
             /\ key_tip_height = Some(0)
             /\ key_tip_hash = Some(BlockHash(Unwrap(genesis)))
    /\ disk = store
    /\ pc = [c \in Calls |-> "idle"]
    /\ op = [c \in Calls |-> "none"]
    /\ blk = [c \in Calls |-> None]
    /\ loc = [c \in Calls |-> NoTip]
    /\ inserted = {}
    /\ req = [c \in Calls |-> NoReq]
    /\ survived = <<>>
    /\ mempool = <<>>
    /\ accepted = <<>>
    /\ calc = NoCalc
    /\ app = NoApp

\* POST /tx: the handler stamps the transaction; the amount tells the
\* requests apart
CallSubmit(c) ==
    /\ MayCall(c)
    /\ \E now \in NodeClock :
         req' = [req EXCEPT ![c] =
                    [txs |-> << [from |-> "Alice", to |-> "Bob", amount |-> c,
                                 timestamp |-> now] >>,
                     data |-> None, target |-> 0, now |-> now]]
    /\ op' = [op EXCEPT ![c] = "submit"]
    /\ pc' = [pc EXCEPT ![c] = "tx_push"]
    /\ UNCHANGED <<store, blk, loc, first, inserted, disk, survived, calc, node, app>>

\* state.mempool.lock().await.push(tx)
TxPush(c) ==
    /\ pc[c] = "tx_push"
    /\ mempool' = Append(mempool, req[c].txs[1])
    /\ accepted' = Append(accepted, req[c].txs[1])
    /\ pc' = [pc EXCEPT ![c] = "ok"]
    /\ UNCHANGED <<store, op, blk, loc, first, inserted, req, disk, survived, calc, app>>

\* GET /mine
CallNodeMine(c) ==
    /\ MayCall(c)
    /\ op' = [op EXCEPT ![c] = "mine"]
    /\ pc' = [pc EXCEPT ![c] = "mine_drain"]
    /\ UNCHANGED <<store, blk, loc, first, inserted, req, disk, survived, calc, node, app>>

\* variant: the batch is a copy and the mempool keeps its transactions
MineDrain_Clone(c) ==
    /\ pc[c] = "mine_drain"
    /\ \E target \in NodeTargets :
         req' = [req EXCEPT ![c] = [txs |-> mempool, data |-> None, target |-> target,
                                    now |-> 0]]
    /\ mempool' = mempool
    /\ pc' = [pc EXCEPT ![c] = "mine_tip_height"]
    /\ UNCHANGED <<store, op, blk, loc, first, inserted, disk, survived, calc, accepted, app>>

\* let txs = { let mut mp = state.mempool.lock().await;
\*             if mp.is_empty() { Vec::new() } else { std::mem::take(&mut *mp) } };
MineDrain(c) ==
    /\ pc[c] = "mine_drain"
    /\ \E target \in NodeTargets :
         req' = [req EXCEPT ![c] = [txs |-> mempool, data |-> None, target |-> target,
                                    now |-> 0]]
    /\ mempool' = <<>>
    /\ pc' = [pc EXCEPT ![c] = "mine_tip_height"]
    /\ UNCHANGED <<store, op, blk, loc, first, inserted, disk, survived, calc, accepted, app>>

\* let index = self.store.tip_height()? + 1;
NodeMineTipHeight(c) ==
    /\ pc[c] = "mine_tip_height"
    /\ tip_height + 1 <= MaxIndex
    /\ loc' = [loc EXCEPT ![c].height = tip_height]
    /\ pc' = [pc EXCEPT ![c] = "mine_tip_hash"]
    /\ UNCHANGED <<store, op, blk, first, inserted, req, disk, survived, calc, node, app>>

\* let prev_hash = self.store.tip_hash()?; mine_block_parallel(index, prev_hash.expect(..),
\* txs, data, target) with the batch drained
NodeMineSearch(c) ==
    /\ pc[c] = "mine_tip_hash"
    /\ IF tip_hash = None
          THEN /\ pc' = [pc EXCEPT ![c] = "panicked"]
               /\ UNCHANGED <<blk, loc, req>>
          ELSE /\ loc' = [loc EXCEPT ![c].prev = tip_hash]
               /\ \E timestamp \in NodeClock, now \in NodeClock :
                    LET results == mine_block_parallel(loc[c].height + 1, Unwrap(tip_hash),
                                                       req[c].txs, req[c].data,
                                                       req[c].target, timestamp, now)
                    IN  /\ req' = [req EXCEPT ![c].now = now]
                        /\ IF results = {}
                              THEN /\ pc' = [pc EXCEPT ![c] = "panicked"]
                                   /\ blk' = blk
                              ELSE \E b \in results :
                                     /\ blk' = [blk EXCEPT ![c] = Some(b)]
                                     /\ pc' = [pc EXCEPT ![c] = "put_check"]
    /\ UNCHANGED <<store, op, first, inserted, disk, survived, calc, node, app>>

NextNode ==
    \E c \in Calls :
        \/ CallSubmit(c)
        \/ TxPush(c)
        \/ CallNodeMine(c)
        \/ MineDrain(c)
        \/ NodeMineTipHeight(c)
        \/ NodeMineSearch(c)
        \/ PutCheck(c)
        \/ PutInsert(c)
        \/ PutTipHeight(c)
        \/ PutTipHash(c)
        \/ PutFlush(c)

SpecNode == InitNode /\ [][NextNode]_vars

\* a call is inside mine_with_txs_parallel
InChain(d) ==
    pc[d] \in {"mine_tip_hash", "put_check", "put_insert", "put_tip_height", "put_tip_hash",
               "put_flush"}

\* mine_with_txs_parallel entered while no other request is inside it
NodeMineTipHeightAlone(c) ==
    /\ \A d \in Calls : ~InChain(d)
    /\ NodeMineTipHeight(c)

\* the mempool under concurrent requests, the chain mined by one request at a time
NextMempool ==
    \E c \in Calls :
        \/ CallSubmit(c)
        \/ TxPush(c)
        \/ CallNodeMine(c)
        \/ MineDrain(c)
        \/ NodeMineTipHeightAlone(c)
        \/ NodeMineSearch(c)
        \/ PutCheck(c)
        \/ PutInsert(c)
        \/ PutTipHeight(c)
        \/ PutTipHash(c)
        \/ PutFlush(c)

SpecMempool == InitNode /\ [][NextMempool]_vars

(* ---------------------------------------------------------------------- *)
(* The next index at the top of the index range.  An index is a u64; here  *)
(* MaxIndex stands for u64::MAX.  `tip_height()? + 1` on the largest u64    *)
(* panics in a build with overflow checks and wraps to 0 in one without.   *)
(* ---------------------------------------------------------------------- *)

IndexSpace == MaxIndex + 1

\* let index = self.store.tip_height()? + 1; without a bound on the tip read
CallMineAnyTip(c) ==
    /\ \A d \in Calls : Quiet(d)
    /\ MayCall(c)
    /\ op' = [op EXCEPT ![c] = "mine"]
    /\ loc' = [loc EXCEPT ![c].height = tip_height]
    /\ \E outcome \in (IF tip_height + 1 >= IndexSpace
                          THEN {"panicked", "mine_tip_hash"} ELSE {"mine_tip_hash"}) :
         pc' = [pc EXCEPT ![c] = outcome]
    /\ UNCHANGED <<store, blk, first, inserted, req, disk, survived, calc, node, app>>

\* the rest of mine_with_txs_parallel, on the index the addition produced
MineWrapped(c) ==
    /\ pc[c] = "mine_tip_hash"
    /\ IF tip_hash = None
          THEN /\ pc' = [pc EXCEPT ![c] = "panicked"]
               /\ UNCHANGED <<blk, loc, req>>
          ELSE /\ loc' = [loc EXCEPT ![c].prev = tip_hash]
               /\ \E txs \in TxChoices, target \in Targets, now \in Times :
                    LET index == (loc[c].height + 1) % IndexSpace
                        results == mine_block_parallel(index, Unwrap(tip_hash), txs, None,
                                                       target, now, now)
                    IN  /\ req' = [req EXCEPT ![c] = [txs |-> txs, data |-> None,
                                                      target |-> target, now |-> now]]
                        /\ IF results = {}
                              THEN /\ pc' = [pc EXCEPT ![c] = "panicked"]
                                   /\ blk' = blk
                              ELSE \E b \in results :
                                     /\ blk' = [blk EXCEPT ![c] = Some(b)]
                                     /\ pc' = [pc EXCEPT ![c] = "put_check"]
    /\ UNCHANGED <<store, op, first, inserted, disk, survived, calc, node, app>>

\* one caller at a time puts blocks at any index and mines on any tip
NextOverflow ==
    \E c \in Calls :
        \/ CallPutAlone(c)
        \/ CallMineAnyTip(c)
        \/ MineWrapped(c)
        \/ PutCheck(c)
        \/ PutInsert(c)
        \/ PutTipHeight(c)
        \/ PutTipHash(c)
        \/ PutFlush(c)

SpecOverflow == Init /\ [][NextOverflow]_vars

(* ---------------------------------------------------------------------- *)
(* The dashboard (ledger-tui): run_app draws, waits for a key, hands it to *)
(* handle_key.  A table is its number of rows, the highlight cursor and    *)
(* the selection of its TableState.  A usize wraps at USIZE_MAX + 1; an    *)
(* overflowing `+ 1` or `- 1` panics in a build with overflow checks and   *)
(* wraps in one without.  render_stateful_widget belongs to the widget     *)
(* library: one release leaves the selection alone, another moves a        *)
(* selection past the last row back onto it and drops it on an empty table.*)
(* ---------------------------------------------------------------------- *)

USIZE_MAX == MaxRows + 1
Tabs == <<"Dashboard", "Chain", "Mempool", "Mine", "HashDemo">>

\* variant: BackTab on Dashboard stays on Dashboard
BackTabTo_Stuck(tab) ==
    CASE tab = "Dashboard" -> "Dashboard"
      [] tab = "Chain" -> "Dashboard"
      [] tab = "Mempool" -> "Chain"
      [] tab = "Mine" -> "Mempool"
      [] tab = "HashDemo" -> "Mine"

\* KeyCode::BackTab => app.tab = match app.tab { .. }
BackTabTo(tab) ==
    CASE tab = "Dashboard" -> "HashDemo"
      [] tab = "Chain" -> "Dashboard"
      [] tab = "Mempool" -> "Chain"
      [] tab = "Mine" -> "Mempool"
      [] tab = "HashDemo" -> "Mine"

\* KeyCode::Tab => app.tab = match app.tab { .. }
TabTo(tab) ==
    CASE tab = "Dashboard" -> "Chain"
      [] tab = "Chain" -> "Mempool"
      [] tab = "Mempool" -> "Mine"
      [] tab = "Mine" -> "HashDemo"
      [] tab = "HashDemo" -> "Dashboard"

\* a table: rows.len(), the cursor, TableState::selected()
Table(rows, cursor, selected) == [rows |-> rows, cursor |-> cursor, selected |-> selected]

\* the outcome of a usize operation: [v |-> value] or, with overflow checks
\* and a result outside the type, a panic
Sub1(x, checks) == IF x > 0 THEN [v |-> x - 1] ELSE IF checks THEN [panic |-> TRUE]
                   ELSE [v |-> USIZE_MAX]
Add1(x, checks) == IF x < USIZE_MAX THEN [v |-> x + 1] ELSE IF checks THEN [panic |-> TRUE]
                   ELSE [v |-> 0]
Panics(r) == "panic" \in DOMAIN r

\* App::next_row on one table: the table it leaves, or a panic
next_row(t, checks) ==
    IF t.selected = None THEN [v |-> Table(t.rows, t.cursor, Some(0))]
    ELSE LET i == Unwrap(t.selected)
             last == Sub1(t.rows, checks)
         IN  IF Panics(last) THEN last
             ELSE IF i >= last.v THEN [v |-> Table(t.rows, 0, Some(0))]
             ELSE LET cursor == Add1(t.cursor, checks)
                  IN  IF Panics(cursor) THEN cursor
                      ELSE [v |-> Table(t.rows, cursor.v, Some(i + 1))]

\* App::previous_row on one table
previous_row(t, checks) ==
    IF t.selected = None THEN [v |-> Table(t.rows, t.cursor, Some(0))]
    ELSE LET i == Unwrap(t.selected)
         IN  IF i = 0
                THEN LET last == Sub1(t.rows, checks)
                     IN  IF Panics(last) THEN last
                         ELSE [v |-> Table(t.rows, last.v, Some(last.v))]
                ELSE LET cursor == Sub1(t.cursor, checks)
                     IN  IF Panics(cursor) THEN cursor
                         ELSE [v |-> Table(t.rows, cursor.v, Some(i - 1))]

\* load_chain_page / load_mempool_page: rows decoded (the cursor goes to 0),
\* a body that does not decode (rows cleared, cursor kept), a failed request
\* (rows cleared, cursor 0); none of them touches the selection
Loaded(t) ==
    { Table(n, 0, t.selected) : n \in 0..MaxRows } \cup { Table(0, t.cursor, t.selected) }

\* render_stateful_widget(table, area, &mut state)
Rendered(t, clamps) ==
    IF ~clamps \/ t.selected = None THEN t
    ELSE IF t.rows = 0 THEN Table(0, t.cursor, None)
    ELSE IF Unwrap(t.selected) >= t.rows THEN Table(t.rows, t.cursor, Some(t.rows - 1))
    ELSE t

\* App::new, then main loads both pages before run_app starts
InitTui ==
    /\ InitStore
    /\ calc = NoCalc
    /\ app \in { [at |-> "draw", key |-> "none", tab |-> "Dashboard",
                  chain |-> c, tx |-> m, checks |-> checks, clamps |-> clamps] :
                    c \in Loaded(Table(0, 0, None)), m \in Loaded(Table(0, 0, None)),
                    checks \in BOOLEAN, clamps \in BOOLEAN }

\* terminal.draw(|f| ui(f, app))
Draw ==
    /\ app.at = "draw"
    /\ app' = [app EXCEPT
                 !.at = "poll",
                 !.chain = IF app.tab = "Chain" THEN Rendered(@, app.clamps) ELSE @,
                 !.tx = IF app.tab = "Mempool" THEN Rendered(@, app.clamps) ELSE @]
    /\ UNCHANGED <<store, pc, op, blk, loc, first, inserted, req, disk, survived, calc, node>>

\* poll returned false: no key within the 200 ms
NoKey ==
    /\ app.at = "poll"
    /\ app' = [app EXCEPT !.at = "draw", !.key = "none"]
    /\ UNCHANGED <<store, pc, op, blk, loc, first, inserted, req, disk, survived, calc, node>>

\* KeyCode::Char('c') if ctrl => return Ok(true); KeyCode::Esc => return Ok(true)
KeyQuit ==
    /\ app.at = "poll"
    /\ \E key \in {"Esc", "Ctrl-C"} :
         app' = [app EXCEPT !.at = "quit", !.key = key]
    /\ UNCHANGED <<store, pc, op, blk, loc, first, inserted, req, disk, survived, calc, node>>

KeyTab ==
    /\ app.at = "poll"
    /\ app' = [app EXCEPT !.at = "draw", !.key = "Tab", !.tab = TabTo(@)]
    /\ UNCHANGED <<store, pc, op, blk, loc, first, inserted, req, disk, survived, calc, node>>

KeyBackTab ==
    /\ app.at = "poll"
    /\ app' = [app EXCEPT !.at = "draw", !.key = "BackTab", !.tab = BackTabTo(@)]
    /\ UNCHANGED <<store, pc, op, blk, loc, first, inserted, req, disk, survived, calc, node>>

\* KeyCode::Char('r'): refresh_dashboard, load_chain_page(None, 999, true), load_mempool_page
KeyReload ==
    /\ app.at = "poll"
    /\ \E c \in Loaded(app.chain), m \in Loaded(app.tx) :
         app' = [app EXCEPT !.at = "draw", !.key = "r", !.chain = c, !.tx = m]
    /\ UNCHANGED <<store, pc, op, blk, loc, first, inserted, req, disk, survived, calc, node>>

\* the table a row key acts on, by the tab shown
Moved(key, tab) ==
    LET t == IF tab = "Chain" THEN app.chain ELSE app.tx
    IN  IF key = "Down" THEN next_row(t, app.checks) ELSE previous_row(t, app.checks)

\* KeyCode::Down / KeyCode::Up: next_row / previous_row in the Chain and
\* Mempool tabs, nothing elsewhere
KeyRow ==
    /\ app.at = "poll"
    /\ \E key \in {"Down", "Up"} :
         IF app.tab \notin {"Chain", "Mempool"}
            THEN app' = [app EXCEPT !.at = "draw", !.key = key]
            ELSE LET r == Moved(key, app.tab)
                 IN  IF Panics(r)
                        THEN app' = [app EXCEPT !.at = "panicked", !.key = key]
                        ELSE app' = [app EXCEPT !.at = "draw", !.key = key,
                                       !.chain = IF app.tab = "Chain" THEN r.v ELSE @,
                                       !.tx = IF app.tab = "Mempool" THEN r.v ELSE @]
    /\ UNCHANGED <<store, pc, op, blk, loc, first, inserted, req, disk, survived, calc, node>>

\* every other key: popups, the forms and the hash demo; none of them
\* touches the tab, the rows, the cursors or the selections
KeyOther ==
    /\ app.at = "poll"
    /\ app' = [app EXCEPT !.at = "draw", !.key = "other"]
    /\ UNCHANGED <<store, pc, op, blk, loc, first, inserted, req, disk, survived, calc, node>>

NextTui ==
    \/ Draw
    \/ NoKey
    \/ KeyQuit
    \/ KeyTab
    \/ KeyBackTab
    \/ KeyReload
    \/ KeyRow
    \/ KeyOther

SpecTui == InitTui /\ [][NextTui]_vars

(* ---------------------------------------------------------------------- *)
(* Properties of the store                                                 *)
(* ---------------------------------------------------------------------- *)

Idx(c) == Unwrap(blk[c]).header.index
Arg(c) == Unwrap(blk[c])
AllQuiet == \A c \in Calls : Quiet(c)
\* c has returned and no later call has been issued
LastReturned(c) == pc[c] = "ok" /\ \A d \in Calls : d > c => pc[d] = "idle"
Occupied == {i \in Indices : IsSome(tree_blocks[i])}
Highest == CHOOSE m \in Occupied : \A i \in Occupied : i <= m
TipMatchesBlock(i) ==
    /\ tip_height = i
    /\ IsSome(get_block(i))
    /\ tip_hash = Some(BlockHash(Unwrap(get_block(i))))

\* C1: put_block on an occupied index returns Ok at its occupancy check and
\* leaves every stored block, the tip height and the tip hash as they were,
\* whether the block equals the stored one or not and whether the index is
\* the tip or below it.
C1_PutIdempotent ==
    [][\A c \in Calls :
         (pc[c] = "put_check" /\ IsSome(get_block(Idx(c))) /\ pc'[c] # "put_check")
            => (pc'[c] = "ok" /\ store' = store)]_vars

\* a put of a different block at an occupied index below the tip was a no-op
C1_Witness ==
    \E c \in Calls :
        /\ pc[c] = "ok"
        /\ c \notin inserted
        /\ get_block(Idx(c)) # blk[c]
        /\ tip_height > Idx(c)

\* C2 (as claimed): under concurrent put_block calls the block stored at an
\* index is the first one written there and never changes, and at most one
\* of the calls racing for an index writes it.
C2_FirstWriterWins ==
    \A i \in Indices :
        /\ IsSome(first[i]) => tree_blocks[i] = first[i]
        /\ Cardinality({c \in inserted : Idx(c) = i}) <= 1

\* C3 (as claimed): in every observable state either there is no tip
\* (height 0, no hash) or the tip hash is the hash of the block stored at
\* the tip height.
C3_TipUpdatedTogether ==
    \/ tip_height = 0 /\ tip_hash = None
    \/ TipMatchesBlock(tip_height)

\* C5: with one caller at a time, a put_block that found its index free
\* returns Ok with the block stored at that index and the tip record equal
\* to (index, hash(block)), whatever the index and previous_hash are.
C5_PutPostcondition ==
    \A c \in Calls :
        (LastReturned(c) /\ c \in inserted) =>
            /\ get_block(Idx(c)) = blk[c]
            /\ tip_height = Idx(c)
            /\ tip_hash = Some(BlockHash(Arg(c)))

\* a block went in below a stored block, with nothing stored just under it
C5_Witness ==
    \E c \in Calls :
        /\ LastReturned(c)
        /\ c \in inserted
        /\ Idx(c) > 0
        /\ get_block(Idx(c) - 1) = None
        /\ \E j \in Indices : j > Idx(c) /\ IsSome(get_block(j))

\* C6 (as claimed): the value of tip_height() never decreases.
C6_TipMonotonic == [][tip_height' >= tip_height]_vars

\* C7 (as claimed): once a block is stored and no call is in flight, the tip
\* height is the largest occupied index and the tip hash is that block's hash.
C7_TipIsHighest ==
    (AllQuiet /\ Occupied # {}) => TipMatchesBlock(Highest)

\* calls 1..k have put correctly chained blocks 0..k-1, one after the other
Chained(k) ==
    \A j \in 1..k :
        /\ pc[j] = "ok"
        /\ Idx(j) = j - 1
        /\ Arg(j).header.previous_hash =
              (IF j = 1 THEN ZeroHash ELSE BlockHash(Arg(j - 1)))

\* C8: after sequentially putting correctly chained blocks 0..N into an
\* empty store the tip is (N, hash(block N)) and every get(i) returns the
\* block put at i; this holds after each single insert.
C8_ChainedInserts ==
    \A k \in Calls :
        (Chained(k) /\ LastReturned(k)) =>
            /\ tip_height = k - 1
            /\ tip_hash = Some(BlockHash(Arg(k)))
            /\ \A j \in 1..k : get_block(j - 1) = blk[j]

\* the whole chain 0..MaxCalls-1 has been put
C8_Witness == Chained(MaxCalls) /\ \A j \in Calls : j \in inserted

\* the calls issued so far use pairwise distinct indices
DistinctIndices ==
    \A c, d \in Calls :
        (pc[c] # "idle" /\ pc[d] # "idle" /\ c # d) => Idx(c) # Idx(d)

\* C9: concurrent put_block calls at pairwise distinct free indices all
\* return Ok, and afterwards every get(i) returns the block put at i.
C9_DistinctConcurrentPuts ==
    (AllQuiet /\ DistinctIndices) =>
        \A c \in Calls : pc[c] # "idle" => (pc[c] = "ok" /\ get_block(Idx(c)) = blk[c])

\* all calls returned after running interleaved: the tip record is torn
C9_Witness ==
    /\ \A c \in 1..MaxThreads : pc[c] = "ok" /\ c \in inserted
    /\ DistinctIndices
    /\ ~ TipMatchesBlock(tip_height)

(* ---------------------------------------------------------------------- *)
(* Properties of the chain facade                                          *)
(* ---------------------------------------------------------------------- *)

\* C4 (as claimed): in every state reached through ensure_genesis and
\* mine_with_txs calls, concurrent mine_with_txs calls included, block 0 has
\* an all-zero previous_hash and no transactions, and every stored block at
\* i > 0 has the hash of the block stored at i - 1 as its previous_hash.
\* Stated for the runs with a single ensure_genesis call, so that the only
\* concurrency is that of the mine_with_txs calls the claim names.
C4_ChainLinkage ==
    (Cardinality({c \in Calls : op[c] = "ensure_genesis"}) <= 1) =>
        \A i \in Indices :
            IsSome(tree_blocks[i]) =>
                LET b == Unwrap(tree_blocks[i])
                IN  IF i = 0
                       THEN b.header.previous_hash = ZeroHash /\ b.txs = <<>>
                       ELSE /\ IsSome(tree_blocks[i - 1])
                            /\ b.header.previous_hash = BlockHash(Unwrap(tree_blocks[i - 1]))

\* two mine_with_txs calls that read the same tip (height and hash)
SameTipMiners(c, d) ==
    /\ c # d
    /\ op[c] = "mine" /\ op[d] = "mine"
    /\ IsSome(loc[c].prev)
    /\ loc[c] = loc[d]

\* C10 (as claimed): when two mine_with_txs calls read the same tip (h, H),
\* both return Ok, only one of them writes index h+1, the block stored there
\* is the first one written and is one of the two mined blocks, and once no
\* call is in flight the tip is (h+1, hash of the stored block).
C10_BenignMineRace ==
    \A c, d \in Calls :
        (SameTipMiners(c, d) /\ AllQuiet) =>
            LET i == loc[c].height + 1
            IN  /\ pc[c] = "ok" /\ pc[d] = "ok"
                /\ Cardinality({c, d} \cap inserted) = 1
                /\ tree_blocks[i] = first[i]
                /\ tree_blocks[i] \in {blk[c], blk[d]}
                /\ TipMatchesBlock(i)

(* ---------------------------------------------------------------------- *)
(* Properties of the chain facade, one caller at a time                    *)
(* ---------------------------------------------------------------------- *)

\* the mine call c returned Ok((block, hash)) and nothing was called since
MineReturned(c) == op[c] = "mine" /\ LastReturned(c)
HashBits(b) == count_leading_zero_bits(Bytes(BlockHash(b)))

\* C11 (as claimed): with one caller at a time, mine_with_txs on a store
\* whose tip is (h, H) returns a block with index h + 1 and previous_hash H
\* whose hash has at least target leading zero bits, and after it returns
\* the store holds that block at h + 1 and the tip is (h + 1, its hash).
C11_MinePostcondition ==
    \A c \in Calls :
        MineReturned(c) =>
            /\ Idx(c) = loc[c].height + 1
            /\ Arg(c).header.previous_hash = Unwrap(loc[c].prev)
            /\ HashBits(Arg(c)) >= req[c].target
            /\ get_block(loc[c].height + 1) = blk[c]
            /\ tip_height = loc[c].height + 1
            /\ tip_hash = Some(BlockHash(Arg(c)))

\* C12: every block the proof-of-work engine produced, by the sequential
\* search of ensure_genesis at difficulty 20 or by the parallel search of
\* mine_with_txs at its target, has a header hash with at least that many
\* leading zero bits, and so has every block those calls stored.
C12_MinedMeetsDifficulty ==
    \A c \in Calls :
        (IsSome(blk[c]) /\ op[c] \in {"ensure_genesis", "mine"}) =>
            LET d == IF op[c] = "mine" THEN req[c].target ELSE POW_TARGET_DIFFICULTY
            IN  /\ HashBits(Arg(c)) >= d
                /\ (c \in inserted /\ pc[c] = "ok") =>
                       HashBits(Unwrap(get_block(Idx(c)))) >= d

\* a mined genesis and a block mined on it at a target above zero are stored
C12_Witness ==
    \E c, d \in Calls :
        /\ op[c] = "ensure_genesis" /\ c \in inserted /\ pc[c] = "ok"
        /\ op[d] = "mine" /\ d \in inserted /\ pc[d] = "ok"
        /\ req[d].target >= 16
        /\ Arg(d).header.nonce > 0

\* C13 (as claimed): mine_with_txs on a store with no tip hash returns a
\* failed result: it does not panic and it writes nothing.
C13_MineWithoutTipFails ==
    \A c \in Calls :
        (op[c] = "mine" /\ pc[c] # "mine_tip_hash" /\ loc[c].prev = None) =>
            /\ pc[c] = "err"
            /\ c \notin inserted

\* the header the parallel search of call c varied the nonce of
Template(c) ==
    BlockHeaderNew(loc[c].height + 1, Unwrap(loc[c].prev), block_data_hash(req[c].data),
                   merkle_root(req[c].txs), 0, req[c].now)
\* no nonce of the searched range gives call c a hash that meets its target
Exhausted(c) ==
    \A nonce \in ParallelRange :
        ~ MeetsTarget([Template(c) EXCEPT !.nonce = nonce], req[c].target)

\* C14 (as claimed): when no nonce of the searched space meets the target,
\* mine_with_txs reports a failure to its caller and does not panic.
C14_ExhaustionIsAnError ==
    \A c \in Calls :
        (op[c] = "mine" /\ IsSome(loc[c].prev) /\ Exhausted(c)) => pc[c] = "err"

\* C15: a fresh store reports tip height 0, no tip hash and no block at any
\* index; after ensure_genesis on it, index 0 holds a block with index 0,
\* all-zero previous_hash, all-zero merkle_root and no transactions, and
\* the tip is (0, hash of that block).
C15_FreshStoreAndGenesis ==
    /\ (\A c \in Calls : pc[c] = "idle") =>
           /\ tip_height = 0
           /\ tip_hash = None
           /\ \A i \in Indices : get_block(i) = None
    /\ (op[1] = "ensure_genesis" /\ LastReturned(1)) =>
           /\ IsSome(get_block(0))
           /\ Unwrap(get_block(0)).header.index = 0
           /\ Unwrap(get_block(0)).header.previous_hash = ZeroHash
           /\ Unwrap(get_block(0)).header.merkle_root = ZeroHash
           /\ Len(Unwrap(get_block(0)).txs) = 0
           /\ tip_height = 0
           /\ tip_hash = Some(BlockHash(Unwrap(get_block(0))))

\* ensure_genesis returned on a fresh store after searching past nonce 0
C15_Witness ==
    /\ op[1] = "ensure_genesis"
    /\ LastReturned(1)
    /\ 1 \in inserted
    /\ Arg(1).header.nonce > 0

\* C16: with one caller at a time, every ensure_genesis after a successful
\* one is a no-op that succeeds: it mines nothing and writes nothing; and
\* when ensure_genesis is all that was called on a fresh store, index 0
\* holds the genesis of the first call, the tip is (0, its hash) and no
\* other index is occupied.
C16_EnsureGenesisIdempotent ==
    /\ \A c, d \in Calls :
          (d < c /\ op[d] = "ensure_genesis" /\ pc[d] = "ok" /\ op[c] = "ensure_genesis") =>
              /\ pc[c] \in {"eg_get", "ok"}
              /\ blk[c] = None
              /\ c \notin inserted
    /\ ((\A c \in Calls : op[c] \in {"none", "ensure_genesis"}) /\ pc[1] = "ok") =>
          /\ get_block(0) = blk[1]
          /\ tip_height = 0
          /\ tip_hash = Some(BlockHash(Arg(1)))
          /\ \A i \in Indices : i > 0 => get_block(i) = None

\* ensure_genesis was called again and again on a fresh store and returned
C16_Witness ==
    /\ \A c \in Calls : op[c] = "ensure_genesis" /\ pc[c] = "ok"
    /\ inserted = {1}

(* ---------------------------------------------------------------------- *)
(* Durability and failed writes                                            *)
(* ---------------------------------------------------------------------- *)

\* C17: with one caller at a time, once put_block has returned Ok every
\* write visible at its return is durable: whether or not the store is
\* reopened afterwards, its index holds a block (the block put, when the
\* call inserted it) and, until the next call, the store reads as it did
\* at the return, with the tip at the block the call inserted.
C17_DurableInsert ==
    \A c \in Calls :
        (op[c] = "put" /\ pc[c] = "ok") =>
            /\ IsSome(get_block(Idx(c)))
            /\ c \in inserted => get_block(Idx(c)) = blk[c]
            /\ LastReturned(c) =>
                  /\ disk = store
                  /\ c \in inserted =>
                        /\ tip_height = Idx(c)
                        /\ tip_hash = Some(BlockHash(Arg(c)))

\* the store was reopened after a put_block that inserted above index 0 had
\* returned, and nothing was called since
C17_Witness ==
    \E c \in Calls :
        /\ LastReturned(c)
        /\ c \in inserted
        /\ Idx(c) > 0
        /\ \E k \in 1..Len(survived) : c \in survived[k]

\* C18 (as claimed): a put_block that returned Err left the store as it
\* was before the call: it added no block at its index, and so, the tip
\* being written only after the block, did not touch the tip either.
C18_FailedPutWritesNothing ==
    \A c \in Calls :
        pc[c] = "err" =>
            c \notin inserted

(* ---------------------------------------------------------------------- *)
(* Properties of merkle_root                                               *)
(* ---------------------------------------------------------------------- *)

LeafHash(t) == Sha256(<<serde_json(t)>>)
Distinct(l) == \A i, j \in 1..Len(l) : i # j => l[i] # l[j]
IsReordering(l, m) ==
    /\ Len(l) = Len(m)
    /\ \E p \in Permutations(1..Len(l)) : m = [i \in 1..Len(l) |-> l[p[i]]]

\* C19: merkle_root of the empty list is the all-zero value, of one
\* transaction the hash of its serialization, and of two transactions the
\* hash of the two leaf hashes, left one first.
C19_MerkleBaseCases ==
    (calc.f = "merkle_root" /\ IsSome(calc.ra)) =>
        LET t == calc.a
            root == Unwrap(calc.ra)
        IN  /\ Len(t) = 0 => root = ZeroHash
            /\ Len(t) = 1 => root = LeafHash(t[1])
            /\ Len(t) = 2 => root = Sha256(<<LeafHash(t[1]), LeafHash(t[2])>>)

\* the root of two different transactions has been computed
C19_Witness ==
    /\ calc.f = "merkle_root"
    /\ IsSome(calc.ra)
    /\ Len(calc.a) = 2
    /\ calc.a[1] # calc.a[2]

\* C20: two calls of merkle_root on the same list return the same root, and
\* on a list of pairwise distinct transactions and a different ordering of
\* it they return different roots.
C20_MerkleOrderSensitive ==
    (calc.f = "merkle_root" /\ IsSome(calc.ra) /\ IsSome(calc.rb)) =>
        /\ calc.a = calc.b => calc.ra = calc.rb
        /\ (Distinct(calc.a) /\ IsReordering(calc.a, calc.b) /\ calc.a # calc.b) =>
              calc.ra # calc.rb

\* both roots of a three-transaction list and of a reordering that keeps the
\* last transaction in place have been computed
C20_Witness ==
    /\ calc.f = "merkle_root"
    /\ IsSome(calc.ra)
    /\ IsSome(calc.rb)
    /\ Len(calc.a) = 3
    /\ Distinct(calc.a)
    /\ IsReordering(calc.a, calc.b)
    /\ calc.a # calc.b
    /\ calc.a[3] = calc.b[3]

(* ---------------------------------------------------------------------- *)
(* Properties of the hashing and proof-of-work functions                   *)
(* ---------------------------------------------------------------------- *)

\* bit k of h read as a big-endian bit string, k counted from 0
BitAt(h, k) == (h[(k \div 8) + 1] \div (2 ^ (7 - (k % 8)))) % 2
\* the number of zero bits before the first one bit, all 256 when there is none
LeadingZeroBits(h) ==
    IF \A k \in 0..(8 * HASH_SIZE - 1) : BitAt(h, k) = 0
       THEN 8 * HASH_SIZE
       ELSE CHOOSE k \in 0..(8 * HASH_SIZE - 1) :
               /\ BitAt(h, k) = 1
               /\ \A j \in 0..(k - 1) : BitAt(h, j) = 0

\* C21: count_leading_zero_bits of a 32-byte hash is the number of leading
\* zero bits of the hash read as a big-endian bit string; it lies in 0..256
\* and is 256 exactly when all 32 bytes are zero.
C21_LeadingZeroBits ==
    (calc.f = "count_leading_zero_bits" /\ IsSome(calc.out)) =>
        LET n == Unwrap(calc.out)
        IN  /\ n = LeadingZeroBits(calc.hash)
            /\ n \in 0..(8 * HASH_SIZE)
            /\ n = 8 * HASH_SIZE <=> \A k \in 1..HASH_SIZE : calc.hash[k] = 0

\* counted: a zero byte, then 0x40, then a byte with leading zeros of its own
C21_Witness ==
    /\ calc.f = "count_leading_zero_bits"
    /\ calc.out = Some(9)
    /\ calc.hash[1] = 0
    /\ calc.hash[2] = 64
    /\ calc.hash[3] = 1

\* the integer whose little-endian bytes are given
RECURSIVE LeValue(_)
LeValue(bytes) ==
    IF Len(bytes) = 0 THEN 0 ELSE Head(bytes) + 256 * LeValue(Tail(bytes))
\* the 32 bytes at offset off are those of the literal hash h
IsHashAt(bytes, off, h) == \A k \in 1..HASH_SIZE : bytes[off + k] = h.lit

\* C22: hash_bytes of a header is 120 bytes: index in 8 bytes little-endian,
\* previous_hash, data_hash and merkle_root in 32 bytes each, then timestamp
\* and nonce in 8 bytes little-endian each; two headers that differ in a
\* field have different hash_bytes.
C22_HashBytesLayout ==
    /\ (calc.f = "hash_bytes" /\ IsSome(calc.ra)) =>
          LET h == calc.a
              bytes == Unwrap(calc.ra)
          IN  /\ Len(bytes) = 120
              /\ LeValue(SubSeq(bytes, 1, 8)) = h.index
              /\ IsHashAt(bytes, 8, h.previous_hash)
              /\ IsHashAt(bytes, 40, h.data_hash)
              /\ IsHashAt(bytes, 72, h.merkle_root)
              /\ LeValue(SubSeq(bytes, 105, 112)) = h.timestamp
              /\ LeValue(SubSeq(bytes, 113, 120)) = h.nonce
    /\ (calc.f = "hash_bytes" /\ IsSome(calc.ra) /\ IsSome(calc.rb)) =>
          (calc.a # calc.b => calc.ra # calc.rb)

\* both byte strings are there for a header with a three-byte index and one
\* that has the timestamp and the nonce the other way round
C22_Witness ==
    /\ calc.f = "hash_bytes"
    /\ IsSome(calc.ra)
    /\ IsSome(calc.rb)
    /\ calc.a.index = 65537
    /\ calc.a.previous_hash # calc.a.data_hash
    /\ calc.b = [calc.a EXCEPT !.timestamp = calc.a.nonce, !.nonce = calc.a.timestamp]
    /\ calc.a # calc.b

\* C23: two blocks with equal headers have the same hash, whatever their
\* payload and transactions are.
C23_HashOfHeaderOnly ==
    (calc.f = "hash" /\ IsSome(calc.ra) /\ IsSome(calc.rb)) =>
        (calc.a.header = calc.b.header => calc.ra = calc.rb)

\* both hashes are there for two blocks with the same header, different
\* payloads and different transactions
C23_Witness ==
    /\ calc.f = "hash"
    /\ IsSome(calc.ra)
    /\ IsSome(calc.rb)
    /\ calc.a.header = calc.b.header
    /\ calc.a.data # calc.b.data
    /\ calc.a.txs # calc.b.txs

\* C24 (as claimed): the sequential search terminates for every block and
\* every target: once it has tried every nonce of the space without a hit it
\* is no longer running.
C24_SearchTerminates ==
    calc.f = "mine_genesis_block" =>
        (calc.iters >= NonceSpace => calc.status # "running")

\* the template header of a call of mine_block_parallel at a given nonce
ParTemplate(nonce) ==
    [BlockHeaderNew(calc.index, calc.prev_hash, block_data_hash(calc.data),
                    merkle_root(calc.txs), calc.timestamp, calc.now) EXCEPT !.nonce = nonce]

\* C25 (as claimed): the parallel search covers every nonce of the space,
\* 0 to the largest inclusive: it reports exhaustion only when no nonce of
\* the whole space meets the target.
C25_ParallelCoversSpace ==
    (calc.f = "mine_block_parallel" /\ calc.status = "panicked") =>
        \A nonce \in Nonces : ~MeetsTarget(ParTemplate(nonce), calc.target)

\* the block handed to the sequential search, at the k-th nonce after its own
ArgAt(k) == [calc.arg EXCEPT !.header.nonce = (@ + k) % NonceSpace]

\* C26: the sequential search returns its input block with only the nonce
\* changed, the nonce being the first of n0, n0 + 1, ... (wrapping) to meet
\* the target; from n0 = 0 that is the lowest qualifying nonce, and a block
\* that already qualifies comes back unchanged.
C26_SequentialFirstNonce ==
    (calc.f = "mine_genesis_block" /\ calc.status = "returned") =>
        LET b == calc.out[1]
        IN  /\ \E k \in 0..MaxNonce :
                 /\ b = ArgAt(k)
                 /\ MeetsTarget(ArgAt(k).header, calc.target)
                 /\ \A j \in 0..(k - 1) : ~MeetsTarget(ArgAt(j).header, calc.target)
            /\ calc.arg.header.nonce = 0 =>
                 \A n \in 0..(b.header.nonce - 1) :
                     ~MeetsTarget([b.header EXCEPT !.nonce = n], calc.target)
            /\ MeetsTarget(calc.arg.header, calc.target) => b = calc.arg
C26_Witness == calc.f = "mine_genesis_block" /\ calc.status = "returned" /\ calc.arg.header.nonce = 3 /\ calc.out[1].header.nonce = 2 /\ calc.target = 20

\* C27: the parallel search varies only the nonce: the block returned has
\* the index, previous hash, transactions and payload it was called with,
\* the merkle root and data hash computed from them, the timestamp read from
\* the clock when the template was built, and the hash returned is the hash
\* of the header returned.
C27_ParallelFrame ==
    (calc.f = "mine_block_parallel" /\ calc.status = "returned") =>
        LET b == calc.out[1].block
        IN  /\ b.header.index = calc.index
            /\ b.header.previous_hash = calc.prev_hash
            /\ b.header.merkle_root = merkle_root(calc.txs)
            /\ b.header.data_hash = block_data_hash(calc.data)
            /\ b.header.timestamp = calc.now
            /\ b.txs = calc.txs
            /\ b.data = calc.data
            /\ calc.out[1].hash = block_header_hash(b.header)
C27_Witness == calc.f = "mine_block_parallel" /\ calc.status = "returned" /\ calc.out[1].block.header.nonce > 0 /\ calc.txs # <<>> /\ calc.data # None /\ calc.timestamp # calc.now

\* ceil(n / 2)
CeilHalf(n) == (n + 1) \div 2
\* the levels of the tree over a list of transactions, leaves first
RECURSIVE LevelsFrom(_)
LevelsFrom(level) ==
    IF Len(level) > 1 THEN <<level>> \o LevelsFrom(NextLevel(level)) ELSE <<level>>

\* C28: merkle_root duplicates the last hash of an odd level: the root of
\* three transactions is H(H(la || lb) || H(lc || lc)), and every level of
\* n > 1 hashes is followed by one of ceil(n / 2) hashes, each the hash of an
\* adjacent pair in order (the last one paired with itself when n is odd),
\* down to the one hash that is the root.
C28_MerkleOddLevels ==
    (calc.f = "merkle_root" /\ IsSome(calc.ra) /\ Len(calc.a) > 0) =>
        LET t == calc.a
            root == Unwrap(calc.ra)
            levels == LevelsFrom([i \in 1..Len(t) |-> LeafHash(t[i])])
        IN  /\ Len(t) = 3 =>
                 root = Sha256(<<Sha256(<<LeafHash(t[1]), LeafHash(t[2])>>),
                                 Sha256(<<LeafHash(t[3]), LeafHash(t[3])>>)>>)
            /\ \A d \in 1..(Len(levels) - 1) :
                 LET up == levels[d]
                     down == levels[d + 1]
                 IN  /\ Len(up) > 1
                     /\ Len(down) = CeilHalf(Len(up))
                     /\ \A k \in 1..Len(down) :
                          down[k] = Sha256(<<up[2 * k - 1],
                                             IF 2 * k <= Len(up) THEN up[2 * k]
                                                                 ELSE up[Len(up)]>>)
            /\ levels[Len(levels)] = <<root>>
C28_Witness == calc.f = "merkle_root" /\ IsSome(calc.ra) /\ Len(calc.a) = 3 /\ Distinct(calc.a)

\* C29 (as claimed): once ensure_genesis has returned success, index 0
\* holds a block, whatever was put into the store before the call.
C29_GenesisEnsured ==
    \A c \in Calls :
        (op[c] = "ensure_genesis" /\ pc[c] = "ok") => IsSome(get_block(0))

\* only ensure_genesis has been called
OnlyEnsureGenesis == \A c \in Calls : op[c] \in {"none", "ensure_genesis"}

\* C30 (as claimed): with concurrent callers of ensure_genesis on an empty
\* store every call that ends returns success, index 0 only ever holds the
\* first genesis block stored there, never another caller's, and once all
\* callers have returned the tip hash is the hash of the block at index 0.
C30_ConcurrentGenesisOnce ==
    OnlyEnsureGenesis =>
        /\ \A c \in Calls : Finished(c) => pc[c] = "ok"
        /\ get_block(0) = first[0]
        /\ (AllQuiet /\ \E c \in Calls : pc[c] = "ok") =>
              /\ IsSome(get_block(0))
              /\ tip_hash = Some(BlockHash(Unwrap(get_block(0))))

\* C31 (as claimed): get_block and put_block at an index whose stored bytes
\* do not decode return an error: neither of them panics.
C31_CorruptionIsAnError ==
    \A c \in Calls : op[c] \in {"get", "put"} => pc[c] # "panicked"

\* the indices of the blocks a listing returned, in the order returned
OutIdx == [k \in 1..Len(calc.out) |-> calc.out[k].header.index]
\* the stored indices a listing from calc.start may return
InReach == { i \in calc.stored : IF calc.desc THEN i <= calc.start ELSE i >= calc.start }

C33_TipIsASnapshot ==
    \A c \in Calls :
        (op[c] = "tip" /\ pc[c] = "ok" /\ IsSome(loc[c].prev)) =>
            \E d \in inserted :
                /\ Idx(d) = loc[c].height
                /\ loc[c].prev = Some(BlockHash(Arg(d)))

(* ---------------------------------------------------------------------- *)
(* The mempool                                                             *)
(* ---------------------------------------------------------------------- *)

Elems(s) == { s[k] : k \in 1..Len(s) }
\* the transactions held by the blocks of the chain
StoredTxs == UNION { Elems(Unwrap(tree_blocks[i]).txs) : i \in Occupied }
\* the mine requests that have drained the mempool
Drained == { c \in Calls : op[c] = "mine" /\ pc[c] # "mine_drain" }

\* C34 (as claimed): every transaction a mine request drained from the
\* mempool is in a block of the chain once the request has completed.
C34_NoTransactionLost ==
    \A c \in Calls :
        (op[c] = "mine" /\ Finished(c)) => Elems(req[c].txs) \subseteq StoredTxs

\* the place of a transaction in the order of acceptance
Pos(t) == CHOOSE k \in 1..Len(accepted) : accepted[k] = t

C36_NextIndexNeverWraps ==
    \A c \in Calls :
        (op[c] = "mine" /\ IsSome(key_tip_hash)) =>
            /\ (loc[c].height = MaxIndex /\ blk[c] = None) => pc[c] # "panicked"
            /\ IsSome(blk[c]) => Idx(c) = loc[c].height + 1

\* C37 (as claimed): merkle_root binds the transaction list: two different
\* non-empty lists have different roots, a list of odd length and the same
\* list with its last transaction once more among them.
C37_MerkleBinding ==
    (calc.f = "merkle_root" /\ IsSome(calc.ra) /\ IsSome(calc.rb)) =>
        ((Len(calc.a) > 0 /\ Len(calc.b) > 0 /\ calc.a # calc.b) => calc.ra # calc.rb)

(* ---------------------------------------------------------------------- *)
(* The dashboard                                                           *)
(* ---------------------------------------------------------------------- *)

\* the place of a tab in the row of titles, from 0
TabIndex(tab) == CHOOSE k \in 0..(Len(Tabs) - 1) : Tabs[k + 1] = tab

C39_RowNavigationInBounds ==
    /\ app.at # "panicked"
    /\ \A t \in {app.chain, app.tx} :
          (t.rows > 0 /\ IsSome(t.selected)) =>
              /\ t.cursor = Unwrap(t.selected)
              /\ t.cursor <= t.rows - 1

====
